---- MODULE Spec2Model ----
(***************************************************************************)
(* State-machine model of the multi-tier alignment cache of                *)
(* src/aligner_cache.h: one AlignmentCacheIface (the session) over a       *)
(* current-read AlignmentCache and optional local / shared across-read     *)
(* AlignmentCaches.                                                        *)
(*                                                                         *)
(* The model follows the release build (NDEBUG): assert() does not change  *)
(* the state.  A uint32_t is modelled as WordBits bits wide, so that the   *)
(* sentinel 0xffffffff is U32 - 1 and the arithmetic wraps modulo U32.     *)
(* The pool hands out pages; a page holds one red-black node or one list   *)
(* element.                                                                *)
(***************************************************************************)
EXTENDS Integers, Sequences, FiniteSets, TLC

\* ------------------------------------------------------------------------
\* Bounds of the model
\* ------------------------------------------------------------------------
WordBits   == 6    \* modelled width of uint32_t
CurPages   == 5    \* pool budget of the current-read cache, in pages
LocPages   == 4    \* pool budget of the local across-read cache
ShPages    == 4    \* pool budget of the shared across-read cache
MaxVersion == 1    \* a cache is cleared at most this many times

U32      == 2 ^ WordBits
Sentinel == U32 - 1            \* 0xffffffff

\* ------------------------------------------------------------------------
\* QKey / SAKey (lines 56-161, 251)
\* ------------------------------------------------------------------------
MaxKeyLen == 32

RECURSIVE QKeyInitLoop(_, _, _)
\* The loop of QKey::init: seq = (seq << 2) | s.get(i), stopping with the
\* sentinel length at the first ambiguous base (code 4).  len keeps the
\* value of (uint32_t)s.length().
QKeyInitLoop(s, i, seq) ==
    IF ~(i < MaxKeyLen /\ i < Len(s)) THEN [seq |-> seq, len |-> Len(s) % U32]
    ELSE IF s[i + 1] = 4 THEN [seq |-> seq, len |-> Sentinel]
    ELSE QKeyInitLoop(s, i + 1, seq * 4 + s[i + 1])

\* A faulty init that shifts once more after the last character, so that
\* the rightmost character misses the least significant bitpair
QKeyInitShifted(s) ==
    IF Len(s) % U32 > MaxKeyLen THEN [seq |-> 0, len |-> Sentinel]
    ELSE [QKeyInitLoop(s, 0, 0) EXCEPT !.seq = @ * 4]

\* QKey::init(s): the key of DNA string s (a sequence of codes 0..4).
QKeyInit(s) ==
    IF Len(s) % U32 > MaxKeyLen THEN [seq |-> 0, len |-> Sentinel]
    ELSE QKeyInitLoop(s, 0, 0)

RECURSIVE toStringLoop(_, _, _)
\* The loop of QKey::toString: s.set(sq & 3, i); sq >>= 2, for i from
\* len - 1 down to 0 (s is indexed from 1 here).
toStringLoop(s, sq, i) ==
    IF i = 0 THEN s
    ELSE toStringLoop([s EXCEPT ![i] = sq % 4], sq \div 4, i - 1)

\* QKey::toString of a cacheable key: the DNA string of k
toString(k) == toStringLoop([j \in 1..k.len |-> 0], k.seq, k.len)

\* QKey::cacheable
cacheable(k) == k.len # Sentinel

\* QKey::reset / QKey()
QKeyReset == [seq |-> 0, len |-> Sentinel]

\* ------------------------------------------------------------------------
\* QVal / SAVal (lines 169-285)
\* ------------------------------------------------------------------------
\* QVal::reset / QVal()
QValReset == [i |-> 0, rangen |-> Sentinel, eltn |-> Sentinel]

\* QVal::init
QValInit(i, ranges, elts) == [i |-> i, rangen |-> ranges, eltn |-> elts]

\* QVal::valid
valid(qv) == qv.rangen # Sentinel

\* A faulty addRange that counts the range and forgets its elements
addRangeNoElts(qv, numElts) == [qv EXCEPT !.rangen = (@ + 1) % U32]

\* QVal::addRange
addRange(qv, numElts) ==
    [qv EXCEPT !.rangen = (@ + 1) % U32, !.eltn = (@ + numElts) % U32]

\* SAVal()
SAValNew == [top |-> 0, i |-> 0, len |-> Sentinel]

\* SAVal::init
SAValInit(t, ii, ln) == [top |-> t, i |-> ii, len |-> ln]

\* ------------------------------------------------------------------------
\* Containers: red-black maps and paged lists over a page pool
\* ------------------------------------------------------------------------
EmptyMap == [x \in {} |-> 0]

MapPut(m, k, v) == [x \in DOMAIN m \cup {k} |-> IF x = k THEN v ELSE m[x]]

\* RedBlack::add(pool, key, &added): the node of key, created with payload
\* dflt when key is new and the pool has a page; NULL (node = FALSE) when
\* the pool is exhausted, and then *added is left as the caller had it.
RedBlackAdd(map, pool, lim, key, dflt, added) ==
    IF key \in DOMAIN map
      THEN [map |-> map, pool |-> pool, node |-> TRUE, added |-> FALSE]
    ELSE IF pool < lim
      THEN [map |-> MapPut(map, key, dflt), pool |-> pool + 1,
            node |-> TRUE, added |-> TRUE]
    ELSE [map |-> map, pool |-> pool, node |-> FALSE, added |-> added]

\* PList::add(pool, elt): append, FALSE when the pool is exhausted.
PListAdd(list, pool, lim, elt) ==
    IF pool < lim
      THEN [list |-> Append(list, elt), pool |-> pool + 1, ok |-> TRUE]
      ELSE [list |-> list, pool |-> pool, ok |-> FALSE]

\* ------------------------------------------------------------------------
\* AlignmentCache: one tier (lines 433-743)
\* ------------------------------------------------------------------------
\* AlignmentCache(bytes, shared).  lock is the holder of lock_: "free", or
\* the thread that holds it, "session" or "other".
AlignmentCache(pages, sh) ==
    [qmap |-> EmptyMap, qlist |-> <<>>, samap |-> EmptyMap, salist |-> <<>>,
     pool |-> 0, lim |-> pages, shared |-> sh, version |-> 0, lock |-> "free"]

\* ThreadSafe ts(lockPtr(), shared_ && getLock) gets past its constructor:
\* c is not shared, or its mutex is free.
unlocked(c) == ~c.shared \/ c.lock = "free"

\* AlignmentCache::query: TRUE iff a payload is stored under k
query(c, k) == k \in DOMAIN c.qmap

\* AlignmentCache::empty
empty(c) == DOMAIN c.qmap = {}

\* AlignmentCache::clear
clear(c) ==
    [c EXCEPT !.pool = 0, !.qmap = EmptyMap, !.qlist = <<>>,
              !.samap = EmptyMap, !.salist = <<>>,
              !.version = (@ + 1) % U32]

\* AlignmentCache::add: the page count and map after RedBlack::add
addNode(c, r) ==
    [c |-> [c EXCEPT !.qmap = r.map, !.pool = r.pool],
     node |-> r.node, added |-> r.added]

\* AlignmentCache::add
add(c, qk, added) ==
    addNode(c, RedBlackAdd(c.qmap, c.pool, c.lim, qk, QValReset, added))

\* The value of an SAList slot that addOnTheFly reserves and the aligner
\* fills in later
Placeholder == Sentinel

\* addOnTheFly, last step: k of the n placeholder offsets fit into the SAList.
addOffsets(c, qv, n, k) ==
    [c   |-> [c EXCEPT !.salist = @ \o [j \in 1..k |-> Placeholder],
                       !.pool = @ + k],
     qv  |-> IF k < n THEN qv ELSE addRange(qv, n),
     ret |-> ~(k < n)]

\* addOnTheFly, third step: sa is the result of adding sak to the SAMap.
addSAKey(c, qv, n, sa) ==
    IF ~sa.node THEN [c |-> c, qv |-> qv, ret |-> FALSE]
    ELSE IF ~sa.added THEN [c |-> c, qv |-> addRange(qv, n), ret |-> TRUE]
    ELSE addOffsets([c EXCEPT !.samap = sa.map, !.pool = sa.pool], qv, n,
                    IF n <= c.lim - sa.pool THEN n ELSE c.lim - sa.pool)

\* addOnTheFly, second step: ql is the result of appending sak to the QList.
addQListed(c, qv, sak, topf, n, ql) ==
    IF ~ql.ok THEN [c |-> c, qv |-> qv, ret |-> FALSE]
    ELSE addSAKey([c EXCEPT !.qlist = ql.list, !.pool = ql.pool], qv, n,
                  RedBlackAdd(c.samap, ql.pool, c.lim, sak,
                              SAValInit(topf, Len(c.salist), n), TRUE))

\* AlignmentCache::addOnTheFly (declared at lines 661-666, defined outside
\* this header).  Appends sak to the QList; when sak is new to the SAMap,
\* inserts SAVal{top, |SAList|, bot - top} and appends bot - top placeholder
\* offsets; then tallies the range in qv.  An invalid qv is first
\* initialised to start at the end of the QList.  FALSE as soon as one
\* allocation fails, leaving what was already appended.
cacheAddOnTheFly(c, qv, sak, topf, botf) ==
    addQListed(c, IF valid(qv) THEN qv ELSE QValInit(Len(c.qlist), 0, 0),
               sak, topf, (botf - topf) % U32,
               PListAdd(c.qlist, c.pool, c.lim, sak))

\* What a read past the end of a source list yields: the process dies, or
\* the read returns stale memory (a key and an offset value).
JunkKey == [seq |-> 0, len |-> 0]

\* c.salist_.get(i) (line 600)
salistGet(src, i, g) ==
    IF i < Len(src.salist) THEN src.salist[i + 1] ELSE g.off

\* The copy of one SA range (lines 594-604): the destination SAVal is
\* initialised and the first k of its len offsets fit into the SAList.  The
\* source offset is read before each salist_.add, the failing one included.
copyOffsets(d, src, sak, sv, k, g) ==
    IF g.crash /\ sv.i + (IF k < sv.len THEN k + 1 ELSE k) > Len(src.salist)
      THEN [c |-> d, ret |-> "crash"]
    ELSE [c   |-> [d EXCEPT !.samap[sak] = SAValInit(sv.top, Len(d.salist), sv.len),
                            !.salist = @ \o [j \in 1..k |-> salistGet(src, sv.i + j - 1, g)],
                            !.pool = @ + k],
          ret |-> IF k < sv.len THEN "false" ELSE "continue"]

\* The copy of the SA range of sak, for as many offsets as the pool of d
\* has pages
copyRange(d, src, sak, g) ==
    copyOffsets(d, src, sak, src.samap[sak],
                IF src.samap[sak].len <= d.lim - d.pool
                  THEN src.samap[sak].len ELSE d.lim - d.pool, g)

RECURSIVE copyLoop(_, _, _, _, _, _)

\* After the copy of one range (lines 594-606)
copyNext(r, src, i, reff, g) ==
    IF r.ret = "continue" THEN copyLoop(r.c, src, i + 1, reff, TRUE, g) ELSE r

\* After samap_.add (lines 584-593): sa is its result, d the destination
\* with sak appended to its QList.
copySAKey(d, src, i, reff, sak, sa, g) ==
    IF ~sa.added THEN copyLoop(d, src, i + 1, reff, FALSE, g)
    ELSE IF ~sa.node THEN [c |-> d, ret |-> "false"]
    ELSE IF sak \notin DOMAIN src.samap THEN [c |-> d, ret |-> "crash"]
    ELSE copyNext(copyRange([d EXCEPT !.samap = sa.map, !.pool = sa.pool],
                            src, sak, g),
                  src, i, reff, g)

\* After qlist_.add (lines 576-584): ql is its result.
copyQListed(d, src, i, reff, added, sak, ql, g) ==
    IF ~ql.ok THEN [c |-> d, ret |-> "false"]
    ELSE copySAKey([d EXCEPT !.qlist = ql.list, !.pool = ql.pool], src, i, reff,
                   sak,
                   RedBlackAdd(d.samap, ql.pool, d.lim, sak, SAValNew, added), g)

\* One turn of the loop: sak is c.qlist_.get(i) (line 575).
copySak(d, src, i, reff, added, sak, g) ==
    copyQListed(d, src, i, reff, added, sak,
                PListAdd(d.qlist, d.pool, d.lim, sak), g)

\* The loop of AlignmentCache::copy over the source window (lines 574-606).
\* added is the flag shared by the two RedBlack::add calls.
copyLoop(d, src, i, reff, added, g) ==
    IF ~(i < reff) THEN [c |-> d, ret |-> "true"]
    ELSE IF i < Len(src.qlist)
      THEN copySak(d, src, i, reff, added, src.qlist[i + 1], g)
    ELSE IF g.crash THEN [c |-> d, ret |-> "crash"]
    ELSE copySak(d, src, i, reff, added, g.key, g)

\* A faulty copy that hands numElts and numRanges to init in the wrong order
copyAddedSwapped(d, qk, qv, src, r, g) ==
    IF ~r.added THEN [c |-> d, ret |-> "true"]
    ELSE copyLoop([d EXCEPT !.pool = r.pool,
                            !.qmap = MapPut(d.qmap, qk,
                                       QValInit(Len(d.qlist), qv.eltn, qv.rangen))],
                  src, qv.i, qv.i + qv.rangen, r.added, g)

\* A faulty copy that overwrites the payload of a key the destination holds
copyAddedOverwrite(d, qk, qv, src, r, g) ==
    IF ~r.node THEN [c |-> d, ret |-> "true"]
    ELSE copyLoop([d EXCEPT !.pool = r.pool,
                            !.qmap = MapPut(d.qmap, qk,
                                       QValInit(Len(d.qlist), qv.rangen, qv.eltn))],
                  src, qv.i, qv.i + qv.rangen, TRUE, g)

\* After qmap_.add (lines 562-573): r is its result.
copyAdded(d, qk, qv, src, r, g) ==
    IF ~r.added THEN [c |-> d, ret |-> "true"]
    ELSE copyLoop([d EXCEPT !.pool = r.pool,
                            !.qmap = MapPut(d.qmap, qk,
                                       QValInit(Len(d.qlist), qv.rangen, qv.eltn))],
                  src, qv.i, qv.i + qv.rangen, r.added, g)

\* AlignmentCache::copy(qk, qv, c): ret is "true", "false", or "crash" when
\* the copy reads outside the source cache.
copy(d, qk, qv, src, g) ==
    copyAdded(d, qk, qv, src,
              RedBlackAdd(d.qmap, d.pool, d.lim, qk, QValReset, FALSE), g)

\* The retry of clearCopy (lines 628-631): r2 is the result of the second
\* copy.  first and retry are the results of the two copies.
clearCopyRetried(d, r2) ==
    IF r2.ret = "crash"
      THEN [c |-> d, ret |-> "crash", first |-> "false", retry |-> "none"]
    ELSE [c |-> r2.c, ret |-> "true", first |-> "false", retry |-> r2.ret]

\* clearCopy after its first copy, whose result is r1.  clear() takes the
\* mutex of a shared cache again while clearCopy's own ThreadSafe holds
\* it: ret is "hung" there, and the mutex stays with the calling thread.
clearCopyCopied(d, qk, qv, src, r1, g) ==
    IF r1.ret = "crash"
      THEN [c |-> d, ret |-> "crash", first |-> "none", retry |-> "none"]
    ELSE IF r1.ret = "true"
      THEN [c |-> r1.c, ret |-> "false", first |-> "true", retry |-> "none"]
    ELSE IF d.shared
      THEN [c |-> [r1.c EXCEPT !.lock = "session"], ret |-> "hung",
            first |-> "false", retry |-> "none"]
    ELSE clearCopyRetried(d, copy(clear(r1.c), qk, qv, src, g))

\* AlignmentCache::clearCopy
clearCopy(d, qk, qv, src, g) ==
    clearCopyCopied(d, qk, qv, src, copy(d, qk, qv, src, g), g)

\* ------------------------------------------------------------------------
\* Inputs
\* ------------------------------------------------------------------------
\* Read substrings handed to beginAlign: "ACGT", "T" and "AN".
SeedInputs == {<<0, 1, 2, 3>>, <<3>>, <<0, 4>>}

\* Reference substrings and BWT ranges handed to addOnTheFly.
AddInputs == {[rfseq |-> <<0, 0>>, topf |-> 10, botf |-> 12],
              [rfseq |-> <<1>>,    topf |-> 20, botf |-> 21]}

QueryKeys == {QKeyInit(s) : s \in SeedInputs}
RefKeys   == {QKeyInit(a.rfseq) : a \in AddInputs}

\* Outcomes of a read outside a list: crash, or stale memory.
Crash == [crash |-> TRUE, key |-> JunkKey, off |-> 0]
Stale == [crash : {FALSE}, key : RefKeys \cup {JunkKey}, off : {Placeholder, 0}]

\* Contents of the memory behind a QVal pointer whose node was cleared away.
StaleQVals == {QValReset, QValInit(0, 0, 0), QValInit(0, 1, 1)}

\* ------------------------------------------------------------------------
\* AlignmentCacheIface: the session (lines 750-1041)
\* ------------------------------------------------------------------------
NULL == [null |-> TRUE]

VARIABLES
    current_,   \* cache dedicated to the current read
    local_,     \* local, unsynchronized cache, or NULL
    shared_,    \* shared, synchronized cache, or NULL
    qk_,        \* key of the current read substring
    qv_,        \* "NULL", "cur" (payload of qk_ in current_), "buf" (qvbuf_)
                \* or "dangling" (a node that a clear has taken away)
    qvbuf_,     \* buffer for when the key is uncacheable
    cacheable_, \* set by add in beginAlign
    rangen_,    \* number of ranges since the last alignment job began
    eltsn_,     \* number of elements since the last alignment job began
    pc,         \* "run"; "crashed" after a read outside a cache;
                \* "hung" after taking a held mutex again; "copying"
                \* between the query and the copy of queryCopy
    last,       \* the last operation: its arguments and results
    fin,        \* QVal returned by finishAlign, per key, since the last clear
    sess,       \* history of the session: adds made since beginAlign
    v0          \* version the caches had when the run began

\* A QKey under test: the string handed to init, the key, the string that
\* toString gives back, and how far the test has come: "none", "new",
\* "keyed", "decoded"
VARIABLES dna, qkey, decoded, keyPc

\* A call of SATuple::randomNarrow: its arguments, the list it fills and its
\* return value ("none" before the call, then "true" or "false")
VARIABLES srcList, maxrows, rndU32, dstList, narrowed

keyVars == <<dna, qkey, decoded, keyPc>>

narrowVars == <<srcList, maxrows, rndU32, dstList, narrowed>>

cacheVars == <<current_, local_, shared_, qk_, qv_, qvbuf_, cacheable_, rangen_,
               eltsn_, pc, last, fin, sess, v0>>

\* What no operation of the session touches
aside == <<v0, keyVars, narrowVars>>

vars == <<cacheVars, keyVars, narrowVars>>

ifaceVars == <<qk_, qv_, qvbuf_, cacheable_, rangen_, eltsn_>>

\* op and key: the operation and its key; ret: its return value; qv: the
\* QVal it hands back; copyRet and retry: the results of the copies it made;
\* tier: the cache it found the key in or promoted to; cleared: the return
\* of clearCopy; handle: the cache a returned QVal pointer points into.
NoOp == [op |-> "none", key |-> QKeyReset, ret |-> 0, qv |-> QValReset,
         copyRet |-> "none", retry |-> "none", tier |-> "none",
         cleared |-> FALSE, handle |-> "none"]

NoSess == [firstOff |-> -1, k |-> 0, sum |-> 0, clean |-> FALSE]

RECURSIVE turnedOver(_, _)
\* The cache c after n calls of clear()
turnedOver(c, n) == IF n = 0 THEN c ELSE turnedOver(clear(c), n - 1)

\* No QKey is under test
NoKeyTest ==
    dna = <<>> /\ qkey = QKeyReset /\ decoded = <<>> /\ keyPc = "none"

\* No randomNarrow is under way
NoNarrow ==
    /\ srcList = <<>> /\ maxrows = 0 /\ rndU32 = 0
    /\ dstList = <<>> /\ narrowed = "none"

\* AlignmentCacheIface(current, local, shared) over caches that were built
\* and then cleared v times
SessionAt(v) ==
    /\ v0 = v
    /\ current_ = turnedOver(AlignmentCache(CurPages, FALSE), v)
    /\ local_ \in {NULL, turnedOver(AlignmentCache(LocPages, FALSE), v)}
    /\ shared_ \in {NULL, turnedOver(AlignmentCache(ShPages, TRUE), v)}
    /\ qk_ = QKeyReset
    /\ qv_ = "NULL"
    /\ qvbuf_ = QValReset
    /\ cacheable_ = FALSE
    /\ rangen_ = 0
    /\ eltsn_ = 0
    /\ pc = "run"
    /\ last = NoOp
    /\ fin = EmptyMap
    /\ sess = NoSess

\* The session alone: no QKey is under test, no randomNarrow under way
InitAt(v) == SessionAt(v) /\ NoKeyTest /\ NoNarrow

\* AlignmentCacheIface(current, local, shared) over freshly built caches
Init == InitAt(0)

\* The version counter of c can still be advanced
capped(c) == c # NULL => (c.version + U32 - v0) % U32 < MaxVersion

\* AlignmentCacheIface::aligning
aligning == qv_ # "NULL"

\* qv_ points at a node that a clear() of current_ has taken away
dangling == qv_ = "dangling"

\* AlignmentCacheIface::resetRead
resetRead ==
    /\ cacheable_' = FALSE
    /\ rangen_' = 0
    /\ eltsn_' = 0
    /\ qv_' = "NULL"

\* The process stops: it crashed, or it waits for a mutex it holds itself.
Stop(how, op, key) ==
    /\ pc' = how
    /\ last' = [NoOp EXCEPT !.op = op, !.key = key]
    /\ UNCHANGED <<current_, local_, shared_, ifaceVars, fin, sess, aside>>

\* A faulty hit that returns without resetRead
beginAlignHitNoReset(k) ==
    /\ qv_' = "cur"
    /\ last' = [NoOp EXCEPT !.op = "beginAlign", !.key = k, !.ret = 1,
                  !.qv = current_.qmap[k]]
    /\ sess' = NoSess
    /\ UNCHANGED <<current_, qvbuf_, cacheable_, rangen_, eltsn_>>

\* beginAlign, found in cache (lines 846-851)
beginAlignHit(k) ==
    /\ resetRead
    /\ last' = [NoOp EXCEPT !.op = "beginAlign", !.key = k, !.ret = 1,
                  !.qv = current_.qmap[k]]
    /\ sess' = NoSess
    /\ UNCHANGED <<current_, qvbuf_>>

\* beginAlign after current_->add (lines 856-865): r is its result
beginAlignAdded(k, r) ==
    IF ~r.node
      THEN /\ resetRead
           /\ last' = [NoOp EXCEPT !.op = "beginAlign", !.key = k, !.ret = -1]
           /\ sess' = NoSess
           /\ current_' = r.c
           /\ UNCHANGED qvbuf_
      ELSE /\ qv_' = "cur"
           /\ cacheable_' = r.added
           /\ current_' = [r.c EXCEPT !.qmap[k] = QValReset]
           /\ last' = [NoOp EXCEPT !.op = "beginAlign", !.key = k]
           /\ sess' = [NoSess EXCEPT !.clean = TRUE]
           /\ UNCHANGED <<qvbuf_, rangen_, eltsn_>>

\* beginAlign on an uncacheable key (lines 857-865)
beginAlignBuf(k) ==
    /\ qv_' = "buf"
    /\ qvbuf_' = QValReset
    /\ last' = [NoOp EXCEPT !.op = "beginAlign", !.key = k]
    /\ sess' = [NoSess EXCEPT !.clean = TRUE]
    /\ UNCHANGED <<current_, cacheable_, rangen_, eltsn_>>

\* beginAlign once qk_.init has made the key k
beginAlignKey(k) ==
    /\ pc = "run"
    /\ qk_' = k
    /\ UNCHANGED <<local_, shared_, pc, fin, aside>>
    /\ IF cacheable(k) /\ query(current_, k) THEN beginAlignHit(k)
       ELSE IF cacheable(k) THEN beginAlignAdded(k, add(current_, k, cacheable_))
       ELSE beginAlignBuf(k)

\* AlignmentCacheIface::beginAlign(seq, qual, qv)
beginAlign(s) == beginAlignKey(QKeyInit(s))

\* The tally of addOnTheFly (lines 955-960): r is the result of
\* current_->addOnTheFly.
addTally(a, sak, r) ==
    /\ rangen_' = IF r.ret THEN rangen_ + 1 ELSE rangen_
    /\ eltsn_' = IF r.ret THEN eltsn_ + ((a.botf - a.topf) % U32) ELSE eltsn_
    /\ last' = [NoOp EXCEPT !.op = "addOnTheFly", !.key = sak,
                  !.ret = IF r.ret THEN 1 ELSE 0, !.qv = r.qv]
    /\ UNCHANGED <<local_, shared_, qk_, qv_, cacheable_, pc, fin, aside>>

\* addOnTheFly through a live qv_
addOnTheFlyLive(a) ==
    /\ pc = "run" /\ aligning /\ ~dangling
    /\ \E r \in {cacheAddOnTheFly(current_,
                                  IF qv_ = "buf" THEN qvbuf_ ELSE current_.qmap[qk_],
                                  QKeyInit(a.rfseq), a.topf, a.botf)} :
         /\ addTally(a, QKeyInit(a.rfseq), r)
         /\ current_' = IF qv_ = "cur" THEN [r.c EXCEPT !.qmap[qk_] = r.qv]
                        ELSE r.c
         /\ qvbuf_' = IF qv_ = "buf" THEN r.qv ELSE qvbuf_
         /\ sess' = IF r.ret
                      THEN [sess EXCEPT
                              !.firstOff = IF @ = -1 THEN Len(current_.qlist) ELSE @,
                              !.k = @ + 1,
                              !.sum = @ + (a.botf - a.topf)]
                      ELSE [sess EXCEPT !.clean = FALSE]

\* addOnTheFly through a dangling qv_: the QVal is read from stale memory
\* and the tally is written back to it.
addOnTheFlyDangling(a) ==
    /\ pc = "run" /\ dangling
    /\ \/ Stop("crashed", "addOnTheFly", QKeyInit(a.rfseq))
       \/ \E qv \in StaleQVals :
            \E r \in {cacheAddOnTheFly(current_, qv, QKeyInit(a.rfseq),
                                       a.topf, a.botf)} :
              /\ addTally(a, QKeyInit(a.rfseq), r)
              /\ current_' = r.c
              /\ UNCHANGED <<qvbuf_, sess>>

\* AlignmentCacheIface::addOnTheFly(rfseq, topf, botf)
addOnTheFly(a) == addOnTheFlyLive(a) \/ addOnTheFlyDangling(a)

\* TRUE when copy(.., qv, src) may read past the end of a list of src
readsOutside(src, qv) ==
    \/ qv.i + qv.rangen > Len(src.qlist)
    \/ \E sak \in DOMAIN src.samap :
         src.samap[sak].i + src.samap[sak].len > Len(src.salist)

StaleReads(src, qv) == IF readsOutside(src, qv) THEN Stale \cup {Crash} ELSE {Crash}

\* A faulty walk that prefers the shared cache
promotionTierShared ==
    IF shared_ # NULL THEN "shared" ELSE IF local_ # NULL THEN "local" ELSE "none"

\* The caches[] walk of finishAlign (lines 894-901): the first non-null of
\* local_ and shared_.
promotionTier ==
    IF local_ # NULL THEN "local" ELSE IF shared_ # NULL THEN "shared" ELSE "none"

\* The result of a clearCopy that was not called
NoCopy == [ret |-> "false", first |-> "none", retry |-> "none"]

\* The return of finishAlign (lines 904-908): the session is reset and a
\* copy of the final QVal is returned.
finishReturn(qv, cur, tier, r, live) ==
    /\ resetRead
    /\ current_' = cur
    /\ qvbuf_' = IF qv_ = "buf" THEN qv ELSE qvbuf_
    /\ last' = [NoOp EXCEPT !.op = "finishAlign", !.key = qk_,
                  !.qv = qv, !.copyRet = r.first, !.retry = r.retry,
                  !.tier = tier, !.cleared = (r.ret = "true")]
    /\ fin' = IF cacheable(qk_) /\ live THEN MapPut(fin, qk_, qv) ELSE fin
    /\ sess' = NoSess
    /\ UNCHANGED <<qk_, pc, aside>>

\* finishAlign after clearCopy (lines 899-908): r is its result
finishCopied(qv, cur, tier, r, live) ==
    IF r.ret = "crash"
      THEN Stop("crashed", "finishAlign", qk_)
    ELSE IF r.ret = "hung"
      THEN /\ pc' = "hung"
           /\ current_' = cur
           /\ shared_' = r.c
           /\ last' = [NoOp EXCEPT !.op = "finishAlign", !.key = qk_,
                         !.copyRet = r.first, !.tier = tier]
           /\ UNCHANGED <<local_, ifaceVars, fin, sess, aside>>
    ELSE /\ finishReturn(qv, cur, tier, r, live)
         /\ local_' = IF tier = "local" THEN r.c ELSE local_
         /\ shared_' = IF tier = "shared" THEN r.c ELSE shared_

\* The promotion of finishAlign (lines 888-903) into the cache dst
finishPromote(qv, cur, tier, dst, live) ==
    /\ unlocked(dst)
    /\ \E g \in StaleReads(cur, qv) :
         \E r \in {clearCopy(dst, qk_, qv, cur, g)} :
           /\ r.ret = "true" => capped(dst)
           /\ finishCopied(qv, cur, tier, r, live)

\* finishAlign with the final QVal qv written into the cache cur
finishTier(qv, cur, tier, live) ==
    IF tier = "none"
      THEN /\ finishReturn(qv, cur, tier, NoCopy, live)
           /\ UNCHANGED <<local_, shared_>>
      ELSE finishPromote(qv, cur, tier,
                         IF tier = "local" THEN local_ ELSE shared_, live)

\* finishAlign once *qv_ is valid (lines 879-881)
finishValid(qv, live) ==
    finishTier(qv,
               IF qv_ = "cur" THEN [current_ EXCEPT !.qmap[qk_] = qv] ELSE current_,
               IF cacheable(qk_) THEN promotionTier ELSE "none",
               live)

\* finishAlign, *qv_ having been read as qv0; live is FALSE when qv_
\* dangles, and then the write through it reaches no cache.
finishAlignWith(qv0, live) ==
    finishValid(IF valid(qv0) THEN qv0 ELSE QValInit(0, 0, 0), live)

\* AlignmentCacheIface::finishAlign
finishAlign ==
    /\ pc = "run" /\ aligning
    /\ IF ~dangling
         THEN finishAlignWith(IF qv_ = "buf" THEN qvbuf_ ELSE current_.qmap[qk_], TRUE)
         ELSE \/ Stop("crashed", "finishAlign", qk_)
              \/ \E qv \in StaleQVals : finishAlignWith(qv, FALSE)

\* A faulty nextRead that clears the current cache and leaves the session
\* as it is
nextReadNoReset ==
    /\ pc = "run"
    /\ capped(current_)
    /\ current_' = clear(current_)
    /\ qv_' = IF qv_ = "cur" THEN "dangling" ELSE qv_
    /\ last' = [NoOp EXCEPT !.op = "nextRead"]
    /\ fin' = EmptyMap
    /\ sess' = NoSess
    /\ UNCHANGED <<local_, shared_, qk_, qvbuf_, cacheable_, rangen_, eltsn_,
                   pc, aside>>

\* AlignmentCacheIface::nextRead
nextRead ==
    /\ pc = "run"
    /\ capped(current_)
    /\ current_' = clear(current_)
    /\ resetRead
    /\ last' = [NoOp EXCEPT !.op = "nextRead"]
    /\ fin' = EmptyMap
    /\ sess' = NoSess
    /\ UNCHANGED <<local_, shared_, qk_, qvbuf_, pc, aside>>

\* One cache pointer of AlignmentCacheIface::clear
clearTier(c) == IF c # NULL THEN clear(c) ELSE c

\* AlignmentCacheIface::clear
ifaceClear ==
    /\ pc = "run"
    /\ capped(current_) /\ capped(local_) /\ capped(shared_)
    /\ shared_ # NULL => unlocked(shared_)
    /\ current_' = clearTier(current_)
    /\ local_' = clearTier(local_)
    /\ shared_' = clearTier(shared_)
    /\ qv_' = IF qv_ = "cur" THEN "dangling" ELSE qv_
    /\ last' = [NoOp EXCEPT !.op = "clear"]
    /\ fin' = EmptyMap
    /\ sess' = [sess EXCEPT !.clean = FALSE]
    /\ UNCHANGED <<qk_, qvbuf_, cacheable_, rangen_, eltsn_, pc, aside>>

\* A faulty queryCopy that answers with the source's QVal pointer once the
\* copy has returned true
queryCopiedNoRequery(qk, tier, r) ==
    IF r.ret = "crash" THEN Stop("crashed", "queryCopy", qk)
    ELSE /\ current_' = r.c
         /\ last' = [NoOp EXCEPT !.op = "queryCopy", !.key = qk,
                       !.ret = IF r.ret = "true" THEN 1 ELSE 0,
                       !.qv = IF r.ret = "true" /\ query(r.c, qk)
                                THEN r.c.qmap[qk] ELSE QValReset,
                       !.copyRet = r.ret, !.tier = tier,
                       !.handle = IF r.ret = "true" THEN tier ELSE "none"]
         /\ pc' = "run"
         /\ UNCHANGED <<local_, shared_, ifaceVars, fin, sess, aside>>

\* queryCopy after current_->copy (lines 788-795): r is its result
queryCopied(qk, tier, r) ==
    IF r.ret = "crash" THEN Stop("crashed", "queryCopy", qk)
    ELSE /\ current_' = r.c
         /\ last' = [NoOp EXCEPT !.op = "queryCopy", !.key = qk,
                       !.ret = IF r.ret = "true" /\ query(r.c, qk) THEN 1 ELSE 0,
                       !.qv = IF r.ret = "true" /\ query(r.c, qk)
                                THEN r.c.qmap[qk] ELSE QValReset,
                       !.copyRet = r.ret, !.tier = tier,
                       !.handle = IF r.ret = "true" /\ query(r.c, qk)
                                    THEN "current" ELSE "none"]
         /\ pc' = "run"
         /\ UNCHANGED <<local_, shared_, ifaceVars, fin, sess, aside>>

\* The copy of queryCopy from the cache src named tier, *qv being read
\* as qv
queryCopyWith(qk, qv, src, tier) ==
    \E g \in StaleReads(src, qv) :
      \E r \in {copy(current_, qk, qv, src, g)} :
        queryCopied(qk, tier, r)

\* The copy of queryCopy from the cache src named tier
queryCopyFrom(qk, src, tier) == queryCopyWith(qk, src.qmap[qk], src, tier)

\* AlignmentCacheIface::queryCopy(qk)
queryCopy(qk) ==
    /\ pc = "run"
    /\ IF query(current_, qk)
         THEN /\ last' = [NoOp EXCEPT !.op = "queryCopy", !.key = qk, !.ret = 1,
                            !.qv = current_.qmap[qk], !.tier = "current",
                            !.handle = "current"]
              /\ UNCHANGED <<current_, local_, shared_, ifaceVars, pc, fin, sess, aside>>
       ELSE IF local_ # NULL /\ query(local_, qk)
         THEN queryCopyFrom(qk, local_, "local")
       ELSE IF shared_ # NULL /\ ~unlocked(shared_) THEN FALSE
       ELSE IF shared_ # NULL /\ query(shared_, qk)
         THEN queryCopyFrom(qk, shared_, "shared")
       ELSE /\ last' = [NoOp EXCEPT !.op = "queryCopy", !.key = qk]
            /\ UNCHANGED <<current_, local_, shared_, ifaceVars, pc, fin, sess, aside>>

Next ==
    \/ \E s \in SeedInputs : beginAlign(s)
    \/ \E a \in AddInputs : addOnTheFly(a)
    \/ finishAlign
    \/ nextRead
    \/ ifaceClear
    \/ \E qk \in QueryKeys : queryCopy(qk)

Spec == Init /\ [][Next]_vars

\* ------------------------------------------------------------------------
\* Properties
\* ------------------------------------------------------------------------
\* A step of the named operation (an operation that changes nothing is a
\* stuttering step, which every [A]_vars admits).
Step(op) == last'.op = op

\* The cache that finishAlign promotes to, NULL when there is none
promotionTarget == IF local_ # NULL THEN local_ ELSE shared_

\* C1, first part as stated: beginAlign of a cacheable seed that current_
\* does not hold returns Miss (0).
C1BeginMiss ==
    (Step("beginAlign") /\ cacheable(last'.key) /\ ~query(current_, last'.key))
      => last'.ret = 0

\* C1, first part as the code has it: Miss (0) when the pool of current_
\* yields a node, OOM (-1) when it is exhausted.
C1Begin ==
    (Step("beginAlign") /\ cacheable(last'.key) /\ ~query(current_, last'.key))
      => last'.ret = IF current_.pool < current_.lim THEN 0 ELSE -1

\* C1, second part: finishAlign of a session that began with a Miss on a
\* cacheable seed and made k >= 1 addOnTheFly calls, all successful, returns
\* QVal{offset = |QList| at the first add, range_count = k,
\* elt_count = sum of (bot_j - top_j)}.
C1Finish ==
    (Step("finishAlign") /\ pc' = "run" /\ cacheable(qk_) /\ sess.clean
       /\ sess.k >= 1)
      => last'.qv = QValInit(sess.firstOff, sess.k, sess.sum % U32)

\* C1, third part: beginAlign of a seed whose session was finished, with no
\* nextRead or clear since, returns Hit (1) with the QVal finishAlign
\* returned.
C1Rehit ==
    (Step("beginAlign") /\ last'.key \in DOMAIN fin)
      => last'.ret = 1 /\ last'.qv = fin[last'.key]

\* C1 as stated: for a cacheable seed not yet in the current cache,
\* beginAlign returns Miss; after k successful addOnTheFly calls finishAlign
\* returns QVal{|QList| at the first add, k, sum of (bot_j - top_j)}; a
\* later beginAlign of the seed, no nextRead or clear in between, returns
\* Hit with that QVal.
C1_Original == [][C1BeginMiss /\ C1Finish /\ C1Rehit]_vars

\* C1 amended: as C1, except that beginAlign returns Miss only when the
\* pool of the current cache yields a node for the seed, and OOM (-1)
\* when it is exhausted.
C1_Amended == [][C1Begin /\ C1Finish /\ C1Rehit]_vars

\* A session of two adds was finished, and beginAlign of its seed hit.
C1_Witness ==
    /\ last.op = "beginAlign" /\ last.ret = 1
    /\ last.key \in DOMAIN fin
    /\ last.qv = fin[last.key]
    /\ last.qv.rangen = 2

C3_Original ==
    [][(/\ last.op = "beginAlign" /\ last.ret = 0 /\ cacheable(last.key)
        /\ DOMAIN current_.qmap = {last.key} /\ current_.qlist = <<>>
        /\ local_ # NULL /\ query(local_, last.key)
        /\ Step("queryCopy") /\ last'.key = last.key)
         => /\ last'.handle = "current"
            /\ valid(last'.qv)
            /\ last'.qv.rangen = local_.qmap[last.key].rangen
            /\ last'.qv.eltn = local_.qmap[last.key].eltn]_vars

\* C3 amended, the Miss: beginAlign of a cacheable seed that current_ lacks
\* returns Miss only after storing the seed in current_ with a reset
\* payload.
C3BeginStores ==
    (Step("beginAlign") /\ cacheable(last'.key) /\ ~query(current_, last'.key)
       /\ last'.ret = 0)
      => query(current_', last'.key) /\ current_'.qmap[last'.key] = QValReset

\* C3 amended, the probe: queryCopy of a key that current_ holds answers
\* with the payload in current_ and copies nothing, whatever local_ holds.
C3QueryCurrent ==
    (Step("queryCopy") /\ query(current_, last'.key))
      => /\ current_' = current_
         /\ last'.tier = "current"
         /\ last'.qv = current_.qmap[last'.key]

\* C3 amended, the promotion: a key that finishAlign has newly put into
\* local_ carries the range_count and elt_count of the finished QVal.
C3Promoted ==
    (Step("finishAlign") /\ pc' = "run" /\ local_ # NULL
       /\ query(local_', qk_) /\ (~query(local_, qk_) \/ last'.cleared))
      => /\ valid(local_'.qmap[qk_])
         /\ local_'.qmap[qk_].rangen = last'.qv.rangen
         /\ local_'.qmap[qk_].eltn = last'.qv.eltn

\* C3 amended, the copy: queryCopy of a key that current_ lacks and local_
\* holds, when it returns a handle, has put the key into current_ with a
\* valid QVal of local_'s range_count and elt_count; it returns none only
\* after a failed copy or with current_'s pool exhausted.
C3Materialize ==
    (Step("queryCopy") /\ pc' = "run" /\ ~query(current_, last'.key)
       /\ local_ # NULL /\ query(local_, last'.key))
      => /\ last'.tier = "local"
         /\ last'.handle = "current"
              => /\ query(current_', last'.key)
                 /\ last'.qv = current_'.qmap[last'.key]
                 /\ valid(last'.qv)
                 /\ last'.qv.rangen = local_.qmap[last'.key].rangen
                 /\ last'.qv.eltn = local_.qmap[last'.key].eltn
         /\ last'.handle = "none"
              => last'.copyRet = "false" \/ ~(current_.pool < current_.lim)

\* C3 amended, the Hit: beginAlign of a cacheable seed that current_ holds
\* returns Hit with the payload in current_.
C3Hit ==
    (Step("beginAlign") /\ cacheable(last'.key) /\ query(current_, last'.key))
      => last'.ret = 1 /\ last'.qv = current_.qmap[last'.key]

\* C3 amended: after a session is finished with local_ present and nextRead
\* is called, beginAlign(seed) returns Miss and stores the seed in current_
\* with a reset payload, so a queryCopy(seed) that follows answers with that
\* payload and materializes nothing.  A queryCopy(seed) issued while
\* current_ lacks the seed and local_ holds it, when it returns a handle,
\* has materialized the entry into current_ as a valid QVal with the promoted
\* range_count and elt_count, and a beginAlign(seed) after it returns Hit
\* with that QVal.
C3_Amended ==
    [][C3BeginStores /\ C3QueryCurrent /\ C3Promoted /\ C3Materialize /\ C3Hit]_vars

\* After a promotion and nextRead, queryCopy has materialized the entry of
\* one range into current_ and beginAlign of its seed hit.
C3_Witness ==
    /\ last.op = "beginAlign" /\ last.ret = 1
    /\ current_.version = 1
    /\ last.key \notin DOMAIN fin
    /\ local_ # NULL /\ query(local_, last.key)
    /\ valid(last.qv) /\ last.qv.rangen = 1
    /\ last.qv.rangen = local_.qmap[last.key].rangen
    /\ last.qv.eltn = local_.qmap[last.key].eltn

\* C4: clearCopy returns true iff it cleared the destination.  When the
\* first copy succeeds the destination is not cleared, its version is
\* unchanged and false is returned; when it fails the destination is
\* cleared once (version v to v+1), the copy is retried, true is returned
\* and, the retry succeeding, the destination holds the new key and no
\* other.
C4_ClearCopy ==
    [][(Step("finishAlign") /\ pc' # "crashed" /\ cacheable(qk_)
          /\ promotionTarget # NULL)
         => /\ last'.copyRet = "true"
                 => /\ pc' = "run" /\ ~last'.cleared
                    /\ promotionTarget'.version = promotionTarget.version
            /\ last'.copyRet = "false"
                 => /\ pc' = "run" /\ last'.cleared
                    /\ promotionTarget'.version
                         = (promotionTarget.version + 1) % U32
                    /\ last'.retry = "true"
                         => DOMAIN promotionTarget'.qmap = {qk_}]_vars

\* C5: whenever copy returns true, qk is in the destination's QMap
\* afterwards (copy returns false on any pool exhaustion).
C5_CopyTrue ==
    /\ (last.op = "queryCopy" /\ last.copyRet = "true")
         => query(current_, last.key)
    /\ (last.op = "finishAlign" /\ pc = "run"
          /\ (last.copyRet = "true" \/ last.retry = "true"))
         => query(promotionTarget, last.key)

\* C6: copy of a key that the destination holds returns true and leaves the
\* destination's QMap, QList, SAMap, SAList and version unchanged.
C6_Duplicate ==
    [][(Step("finishAlign") /\ pc' # "crashed" /\ cacheable(qk_)
          /\ promotionTarget # NULL /\ query(promotionTarget, qk_))
         => /\ last'.copyRet = "true"
            /\ ~last'.cleared
            /\ local_' = local_
            /\ shared_' = shared_]_vars

\* finishAlign promoted a key that local_ held with other counts, and
\* local_ kept its own.
C6_Witness ==
    /\ last.op = "finishAlign" /\ pc = "run"
    /\ last.tier = "local" /\ last.copyRet = "true"
    /\ query(local_, last.key)
    /\ local_.qmap[last.key].rangen # last.qv.rangen

firstHolder(qk) ==
    IF query(current_, qk) THEN "current"
    ELSE IF local_ # NULL /\ query(local_, qk) THEN "local"
    ELSE IF shared_ # NULL /\ query(shared_, qk) THEN "shared"
    ELSE "none"

\* C8: queryCopy probes current_, local_, shared_ in that order and acts on
\* the first that holds qk.  Every handle it returns is the payload stored
\* under qk in current_, so qk is in current_ afterwards; it returns none
\* when no cache holds qk or when the copy into current_ fails.  It changes
\* neither local_ nor shared_.
C8_QueryCopy ==
    [][(Step("queryCopy") /\ pc' = "run") =>
         /\ last'.tier = firstHolder(last'.key)
         /\ last'.handle \in {"current", "none"}
         /\ last'.handle = "current"
              => /\ query(current_', last'.key)
                 /\ last'.qv = current_'.qmap[last'.key]
         /\ last'.tier = "none" => last'.handle = "none" /\ current_' = current_
         /\ last'.tier = "current" => last'.handle = "current"
         /\ last'.copyRet = "false" => last'.handle = "none"
         /\ local_' = local_ /\ shared_' = shared_]_vars

\* queryCopy found the key in shared_ and returned the copy in current_.
C8_Witness ==
    /\ last.op = "queryCopy" /\ pc = "run"
    /\ last.tier = "shared" /\ last.handle = "current"
    /\ query(current_, last.key)
    /\ last.qv = current_.qmap[last.key]
    /\ last.qv.rangen >= 1

\* Every valid QVal of c has its window inside the QList, with every SAKey
\* of the window in the SAMap, and every SAVal its window inside the SAList.
listMapConsistent(c) ==
    /\ \A qk \in DOMAIN c.qmap :
         valid(c.qmap[qk]) =>
           /\ c.qmap[qk].i + c.qmap[qk].rangen <= Len(c.qlist)
           /\ \A j \in (c.qmap[qk].i + 1)..(c.qmap[qk].i + c.qmap[qk].rangen) :
                c.qlist[j] \in DOMAIN c.samap
    /\ \A sak \in DOMAIN c.samap :
         c.samap[sak].i + c.samap[sak].len <= Len(c.salist)

\* C9: list-map consistency of the across-read caches, which only copy and
\* clearCopy write: every QVal window lies within the QList with its SAKeys
\* in the SAMap, and every SAVal window lies within the SAList, failed
\* copies included, whenever no operation is under way.
C9_ListMap ==
    pc = "run" =>
      /\ local_ # NULL => listMapConsistent(local_)
      /\ shared_ # NULL => listMapConsistent(shared_)

\* QMap, QList, SAMap and SAList of c are all empty
allEmpty(c) ==
    /\ DOMAIN c.qmap = {} /\ c.qlist = <<>>
    /\ DOMAIN c.samap = {} /\ c.salist = <<>>

\* C10: in every reachable state of a cache, empty() holds iff QMap, QList,
\* SAMap and SAList are all empty, also on current_ during and after a
\* session whose seed is uncacheable.
C10_Empty ==
    /\ empty(current_) <=> allEmpty(current_)
    /\ local_ # NULL => (empty(local_) <=> allEmpty(local_))
    /\ shared_ # NULL => (empty(shared_) <=> allEmpty(shared_))

\* ------------------------------------------------------------------------
\* Turnover of the version counter
\* ------------------------------------------------------------------------
\* The session over caches that have each been cleared 2^32 - 1 times
InitWrap == InitAt(Sentinel)

SpecWrap == InitWrap /\ [][Next]_vars

\* This step executes clear() on the cache named tier: nextRead clears
\* current_, the session's clear every cache, and clearCopy its destination
\* when it returns true.
clears(tier) ==
    \/ Step("clear")
    \/ Step("nextRead") /\ tier = "current"
    \/ Step("finishAlign") /\ last'.cleared /\ last'.tier = tier

\* C11 for one cache: before and after are its states around the step.
C11Tier(tier, before, after) ==
    before # NULL =>
      IF clears(tier) THEN after.version > before.version
      ELSE after.version = before.version

\* C11: every execution of clear() on a cache (direct, or from clearCopy,
\* nextRead or the session's clear) strictly increases the cache's 32-bit
\* version counter, and no step that does not execute clear() changes it.
C11_Version ==
    [][/\ C11Tier("current", current_, current_')
       /\ C11Tier("local", local_, local_')
       /\ C11Tier("shared", shared_, shared_')]_vars

\* What the code does: clear() advances the counter by one modulo 2^32.
C11TierMod(tier, before, after) ==
    before # NULL =>
      IF clears(tier) THEN after.version = (before.version + 1) % U32
      ELSE after.version = before.version

C11_VersionMod ==
    [][/\ C11TierMod("current", current_, current_')
       /\ C11TierMod("local", local_, local_')
       /\ C11TierMod("shared", shared_, shared_')]_vars

\* ------------------------------------------------------------------------
\* Readers of a promotion target
\* ------------------------------------------------------------------------
\* The entry of qk in c is complete: its QVal window lies inside the QList,
\* every SAKey of the window is in the SAMap, and the SAVal of each has its
\* window inside the SAList.
entryComplete(c, qk) ==
    /\ c.qmap[qk].i + c.qmap[qk].rangen <= Len(c.qlist)
    /\ \A j \in (c.qmap[qk].i + 1)..(c.qmap[qk].i + c.qmap[qk].rangen) :
         /\ c.qlist[j] \in DOMAIN c.samap
         /\ c.samap[c.qlist[j]].i + c.samap[c.qlist[j]].len <= Len(c.salist)

\* The across-read cache that queryCopy(qk) reads, current_ lacking qk
holder(qk) == IF firstHolder(qk) = "local" THEN local_ ELSE shared_

\* C12: a reader that queries the target of a promotion after finishAlign's
\* clearCopy finds either no entry for the promoted key or the complete
\* entry (QVal window inside the QList, every SAKey in the SAMap, every
\* SAVal window inside the SAList), never a partially inserted one, also
\* when the entry did not fit into the cleared cache.
C12_NoTorn ==
    [][(Step("queryCopy") /\ firstHolder(last'.key) \in {"local", "shared"})
         => entryComplete(holder(last'.key), last'.key)]_vars

\* ------------------------------------------------------------------------
\* Several threads on the shared cache
\* ------------------------------------------------------------------------
\* queryCopy up to the return of caches[2]->query (lines 782-786): the
\* mutex of shared_ is taken for the lookup and released on return, and the
\* thread is left with a pointer to the payload of qk in shared_.
queryShared(qk) ==
    /\ pc = "run"
    /\ ~query(current_, qk)
    /\ local_ # NULL => ~query(local_, qk)
    /\ shared_ # NULL /\ unlocked(shared_) /\ query(shared_, qk)
    /\ pc' = "copying"
    /\ last' = [NoOp EXCEPT !.op = "query", !.key = qk, !.tier = "shared",
                  !.handle = "shared"]
    /\ UNCHANGED <<current_, local_, shared_, ifaceVars, fin, sess, aside>>

\* What *qv yields once the thread is past the lookup: the payload, or stale
\* memory when the node has been cleared away since
pointee(qk) ==
    IF query(shared_, qk) THEN {shared_.qmap[qk]} ELSE StaleQVals

\* The rest of queryCopy (lines 788-795): current_->copy reads *qv and the
\* lists of shared_ under the mutex of current_, which is not shared.
copyShared ==
    /\ pc = "copying"
    /\ \E qv \in pointee(last.key) :
         queryCopyWith(last.key, qv, shared_, "shared")

\* Another thread's AlignmentCacheIface::clear reaches shared_->clear() and
\* takes the mutex (line 674)
otherAcquire ==
    /\ pc \in {"run", "copying"}
    /\ shared_ # NULL /\ unlocked(shared_) /\ capped(shared_)
    /\ shared_' = [shared_ EXCEPT !.lock = "other"]
    /\ UNCHANGED <<current_, local_, ifaceVars, pc, last, fin, sess, aside>>

\* The other thread clears shared_ and releases the mutex (lines 675-681)
otherClear ==
    /\ pc \in {"run", "copying"}
    /\ shared_ # NULL /\ shared_.lock = "other"
    /\ shared_' = [clear(shared_) EXCEPT !.lock = "free"]
    /\ UNCHANGED <<current_, local_, ifaceVars, pc, last, fin, sess, aside>>

\* AlignmentCache::queryEx(k, satups) called on shared_ (lines 478-486): its
\* ThreadSafe takes the mutex, and query(k, getLock) takes it again.
sharedQueryEx(qk) ==
    /\ pc = "run"
    /\ shared_ # NULL /\ unlocked(shared_)
    /\ pc' = "hung"
    /\ shared_' = [shared_ EXCEPT !.lock = "session"]
    /\ last' = [NoOp EXCEPT !.op = "queryEx", !.tier = "shared"]
    /\ UNCHANGED <<current_, local_, ifaceVars, fin, sess, aside>>

\* The session of one thread with shared_ as its only across-read cache
InitShared == InitAt(0) /\ local_ = NULL /\ shared_ # NULL

NextShared ==
    \/ Next
    \/ \E qk \in QueryKeys : queryShared(qk)
    \/ copyShared
    \/ otherAcquire
    \/ otherClear
    \/ \E qk \in QueryKeys : sharedQueryEx(qk)

SpecShared == InitShared /\ [][NextShared]_vars

\* C13: every read or write of the QMap, QList, SAMap or SAList of a shared
\* cache is made by a thread that holds the mutex of that cache; this
\* includes the reads of the source cache that queryCopy's copy makes when
\* the hit is in shared_.
C13_LockDiscipline ==
    [][(pc = "copying" /\ pc' # "copying") => shared_.lock = "session"]_vars

\* A consequence of C13: queryCopy's copy never reads shared_ while another
\* thread holds its mutex.
C13_Exclusive ==
    [][(pc = "copying" /\ pc' # "copying") => shared_.lock # "other"]_vars

\* C14: a thread never takes a mutex that it holds, so every operation
\* called on a shared cache with getLock = true returns: clearCopy on a
\* shared destination whose first copy fails, and queryEx on a shared cache,
\* both complete.
C14_DeadlockFree == ~(pc = "hung" /\ shared_.lock = "session")

\* ------------------------------------------------------------------------
\* QKey: init and toString
\* ------------------------------------------------------------------------
MaxShort == 3    \* every string of at most this many codes is tried

\* The strings over codes of length n
Strings(codes, n) == [1..n -> codes]

\* n times the base A
As(n) == [j \in 1..n |-> 0]

ShortInputs == UNION {Strings(0..4, n) : n \in 0..MaxShort}

\* Lengths around 32 and around 2^32
PadLengths == {MaxKeyLen - MaxShort, MaxKeyLen - 1, MaxKeyLen, U32 - 1, U32}

\* The strings handed to QKey::init: the short ones, and the short ones
\* behind a run of A's
KeyInputs == ShortInputs \cup {As(n) \o s : n \in PadLengths, s \in ShortInputs}

\* No session is open; a QKey is built for one of the strings
InitKey ==
    /\ SessionAt(0) /\ local_ = NULL /\ shared_ = NULL
    /\ NoNarrow
    /\ dna \in KeyInputs
    /\ qkey = QKeyReset
    /\ decoded = <<>>
    /\ keyPc = "new"

\* qkey.init(dna)
keyInit ==
    /\ keyPc = "new"
    /\ qkey' = QKeyInit(dna)
    /\ keyPc' = "keyed"
    /\ UNCHANGED <<dna, decoded, cacheVars, narrowVars>>

\* qkey.toString(decoded), for a cacheable qkey
keyToString ==
    /\ keyPc = "keyed"
    /\ cacheable(qkey)
    /\ decoded' = toString(qkey)
    /\ keyPc' = "decoded"
    /\ UNCHANGED <<dna, qkey, cacheVars, narrowVars>>

NextKey == keyInit \/ keyToString

SpecKey == InitKey /\ [][NextKey]_vars

\* s is a string over {A, C, G, T}
isDna(s) == \A j \in 1..Len(s) : s[j] \in 0..3

\* C15: for every DNA string s over {A,C,G,T} with |s| <= 32, the key of s
\* is cacheable with len = |s| and toString gives s back ("ACGT" has
\* seq = 27, len = 4); for every s that holds the ambiguous base (code 4) or
\* has |s| > 32, the key of s is not cacheable.
C15_RoundTrip ==
    /\ (keyPc \in {"keyed", "decoded"} /\ isDna(dna) /\ Len(dna) <= MaxKeyLen)
         => cacheable(qkey) /\ qkey.len = Len(dna)
    /\ (keyPc = "keyed" /\ isDna(dna) /\ Len(dna) <= MaxKeyLen)
         => toString(qkey) = dna
    /\ (keyPc = "decoded" /\ isDna(dna) /\ Len(dna) <= MaxKeyLen)
         => decoded = dna
    /\ (keyPc = "keyed" /\ dna = <<0, 1, 2, 3>>) => qkey = [seq |-> 27, len |-> 4]
    /\ (keyPc \in {"keyed", "decoded"} /\ (~isDna(dna) \/ Len(dna) > MaxKeyLen))
         => ~cacheable(qkey)

\* C15 for the strings shorter than 2^32
C15_Below ==
    Len(dna) < U32 => C15_RoundTrip

RECURSIVE shr(_, _)
\* x >> 2p
shr(x, p) == IF p = 0 THEN x ELSE shr(x \div 4, p - 1)

\* The two bits at positions 2p..2p+1 of x
bitpair(x, p) == shr(x, p) % 4

\* qkey is the key of a cacheable sequence: at most 32 bases, none ambiguous
keyedCacheable ==
    keyPc \in {"keyed", "decoded"} /\ isDna(dna) /\ Len(dna) <= MaxKeyLen

\* C17 as stated: for a cacheable sequence b_0 b_1 ... b_{L-1}, the two bits
\* of base b_i are stored at bit positions 2i..2i+1 of seq.
C17_Original ==
    keyedCacheable =>
      \A i \in 0..(Len(dna) - 1) : bitpair(qkey.seq, i) = dna[i + 1]

\* C17 amended: for a cacheable sequence b_0 b_1 ... b_{L-1}, the two bits
\* of base b_i are stored at bit positions 2(L-1-i)..2(L-1-i)+1 of seq: the
\* rightmost character occupies the least significant bitpair.
C17_Amended ==
    keyedCacheable =>
      \A i \in 0..(Len(dna) - 1) :
        bitpair(qkey.seq, Len(dna) - 1 - i) = dna[i + 1]

\* The key of a sequence of 32 bases that ends in "CT" has been built.
C17_Witness ==
    /\ keyedCacheable
    /\ Len(dna) = MaxKeyLen
    /\ dna[MaxKeyLen - 1] = 1 /\ dna[MaxKeyLen] = 3
    /\ bitpair(qkey.seq, 0) = 3 /\ bitpair(qkey.seq, 1) = 1

\* ------------------------------------------------------------------------
\* SATuple::randomNarrow (lines 293-415)
\* ------------------------------------------------------------------------
MaxTuples == 3   \* longest source list
MaxSlice  == 3   \* longest source slice
MaxRows   == 4   \* largest maxrows

\* TSlice(list, i, len): a window of a list, and TSlice::init(sl, first,
\* last), the window of its rows first .. last - 1
TSlice(i, len) == [i |-> i, len |-> len]

TSliceInit(sl, first, lst) == TSlice(sl.i + first, lst - first)

\* SATuple::init(k, t, o)
SATuple(k, t, o) == [key |-> k, top |-> t, offs |-> o]

\* SATuple::init(src, first, last)
SATupleInit(t, first, lst) ==
    SATuple(t.key, (t.top + first) % U32, TSliceInit(t.offs, first, lst))

RECURSIVE totrowsOf(_, _)
\* The first loop of randomNarrow (lines 338-341): the rows of the first n
\* tuples of s
totrowsOf(s, n) ==
    IF n = 0 THEN 0 ELSE totrowsOf(s, n - 1) + s[n].offs.len

\* last (lst here) after the clamp to the size of the slice (lines 366-368, 381-383)
clamp(lst, size) == IF lst > size THEN size ELSE lst

RECURSIVE narrowLoop(_, _, _, _, _, _, _, _)

\* The end of one turn (lines 389-393): stop once maxrows rows are sampled,
\* otherwise count the rows of t and go on.
narrowNext(s, mx, off, p, on, totrows, sampled, d, t) ==
    IF sampled = mx THEN d
    ELSE narrowLoop(s, mx, off, p + 1, on, totrows + t.offs.len, sampled, d)

\* dst.expand(); dst.back().init(src[i], first, last) (lines 363-372 and
\* 378-387)
narrowEmit(s, mx, off, p, totrows, sampled, d, t, first, lst) ==
    narrowNext(s, mx, off, p, TRUE, totrows, sampled + (lst - first),
               Append(d, SATupleInit(t, first, lst)), t)

\* One turn of the inner loop on the tuple t (lines 356-394)
narrowTurn(s, mx, off, p, on, totrows, sampled, d, t) ==
    IF on
      THEN narrowEmit(s, mx, off, p, totrows, sampled, d, t,
                      0, clamp(mx - sampled, t.offs.len))
    ELSE IF off < totrows + t.offs.len
      THEN narrowEmit(s, mx, off, p, totrows, sampled, d, t,
                      off - totrows, clamp(off - totrows + mx, t.offs.len))
    ELSE narrowNext(s, mx, off, p, on, totrows, sampled, d, t)

\* The two passes over src (lines 354-399): p counts the turns of both.
narrowLoop(s, mx, off, p, on, totrows, sampled, d) ==
    IF p = 2 * Len(s) THEN d
    ELSE narrowTurn(s, mx, off, p, on, totrows, sampled, d,
                    s[(p % Len(s)) + 1])

\* randomNarrow once totrows is known (lines 344-406); r is rnd.nextU32()
narrowFrom(s, d, r, mx, totrows) ==
    IF totrows <= mx THEN [ret |-> FALSE, dst |-> d]
    ELSE [ret |-> TRUE,
          dst |-> narrowLoop(s, mx, r % totrows, 0, FALSE, 0, 0, d)]

\* SATuple::randomNarrow(src, dst, rnd, maxrows)
randomNarrow(s, d, r, mx) == narrowFrom(s, d, r, mx, totrowsOf(s, Len(s)))

\* The source list whose slices have the given sizes: tuple j has the key
\* of the one-base string j - 1, top 10 j, and its own window of the SAList
SrcOf(sizes) ==
    [j \in 1..Len(sizes) |->
       SATuple([seq |-> j - 1, len |-> 1], 10 * j,
               TSlice((j - 1) * MaxSlice, sizes[j]))]

SrcInputs == {SrcOf(z) : z \in UNION {[1..n -> 0..MaxSlice] : n \in 0..MaxTuples}}

\* No session is open; randomNarrow is about to be called with an empty dst
InitNarrow ==
    /\ SessionAt(0) /\ local_ = NULL /\ shared_ = NULL
    /\ NoKeyTest
    /\ srcList \in SrcInputs
    /\ maxrows \in 0..MaxRows
    /\ rndU32 \in 0..(U32 - 1)
    /\ dstList = <<>>
    /\ narrowed = "none"

\* narrowed = randomNarrow(srcList, dstList, rnd, maxrows)
narrow ==
    /\ narrowed = "none"
    /\ \E r \in {randomNarrow(srcList, dstList, rndU32, maxrows)} :
         /\ dstList' = r.dst
         /\ narrowed' = IF r.ret THEN "true" ELSE "false"
    /\ UNCHANGED <<srcList, maxrows, rndU32, cacheVars, keyVars>>

NextNarrow == narrow

SpecNarrow == InitNarrow /\ [][NextNarrow]_vars

RECURSIVE rowsOf(_, _)
\* The rows of the first n tuples of the list s, in order, each named by
\* its place in the SAList
rowsOf(s, n) ==
    IF n = 0 THEN <<>>
    ELSE rowsOf(s, n - 1) \o [j \in 1..s[n].offs.len |-> s[n].offs.i + j - 1]

\* C16: randomNarrow, called with an empty dst, returns true iff the source
\* slices hold more than maxrows rows; when it returns false dst is
\* unchanged; when it returns true the slices in dst hold exactly maxrows
\* rows, dst is non-empty, every tuple in dst has a non-empty slice and
\* |dst| <= |src| + 1; for every source list, tuples with empty slices
\* included, and every maxrows >= 0.
C16_Narrow ==
    narrowed # "none" =>
      /\ narrowed = "true" <=> totrowsOf(srcList, Len(srcList)) > maxrows
      /\ narrowed = "false" => dstList = <<>>
      /\ narrowed = "true" =>
           /\ totrowsOf(dstList, Len(dstList)) = maxrows
           /\ dstList # <<>>
           /\ \A j \in 1..Len(dstList) : dstList[j].offs.len > 0
           /\ Len(dstList) <= Len(srcList) + 1

\* C16 for maxrows >= 1 and source lists without empty slices
C16_Positive ==
    (maxrows >= 1 /\ \A j \in 1..Len(srcList) : srcList[j].offs.len > 0)
      => C16_Narrow

\* The offset that randomNarrow draws (line 348)
drawn == rndU32 % totrowsOf(srcList, Len(srcList))

\* The rows off, off + 1, ... (mod total) of the concatenated source slices,
\* maxrows of them
window ==
    [k \in 1..maxrows |->
       rowsOf(srcList, Len(srcList))
         [((drawn + k - 1) % totrowsOf(srcList, Len(srcList))) + 1]]

\* The tuple d is a subrange of a source tuple that holds at least least rows
subrangeOfSource(d, least) ==
    \E i \in 1..Len(srcList) :
      \E first \in 0..srcList[i].offs.len :
        \E lst \in first..srcList[i].offs.len :
          /\ lst - first >= least
          /\ d = SATupleInit(srcList[i], first, lst)
          /\ d.key = srcList[i].key
          /\ d.top = srcList[i].top + first

\* C18: when randomNarrow returns true, the rows in dst are, in order, the
\* maxrows logical rows off, off + 1, ... (mod total) of the concatenated
\* source slices, off being the drawn offset; no source row is emitted
\* twice, also when the window wraps into the starting tuple; and every
\* tuple in dst is init(src[i], first, last) with key = src[i].key,
\* top = src[i].top + first and 0 <= first < last <= |src[i].slice|.
C18_Window ==
    narrowed = "true" =>
      /\ rowsOf(dstList, Len(dstList)) = window
      /\ \A j, k \in 1..maxrows : window[j] = window[k] => j = k
      /\ \A j \in 1..Len(dstList) : subrangeOfSource(dstList[j], 1)

\* C18 with first <= last in place of first < last
C18_WindowOrEmpty ==
    narrowed = "true" =>
      /\ rowsOf(dstList, Len(dstList)) = window
      /\ \A j, k \in 1..maxrows : window[j] = window[k] => j = k
      /\ \A j \in 1..Len(dstList) : subrangeOfSource(dstList[j], 0)

\* ------------------------------------------------------------------------
\* Windows of the QList
\* ------------------------------------------------------------------------
RECURSIVE lenSum(_, _, _)
\* The sum of len over the SAVals that c holds for the SAKeys at the n
\* places of its QList from i on
lenSum(c, i, n) ==
    IF n = 0 THEN 0
    ELSE lenSum(c, i + 1, n - 1)
           + (IF i < Len(c.qlist) /\ c.qlist[i + 1] \in DOMAIN c.samap
                THEN c.samap[c.qlist[i + 1]].len ELSE 0)

\* elt_count of every valid QVal of c is the sum of len over its window
eltCountsAgree(c) ==
    \A qk \in DOMAIN c.qmap :
      valid(c.qmap[qk]) =>
        c.qmap[qk].eltn = lenSum(c, c.qmap[qk].i, c.qmap[qk].rangen)

\* C20: for every valid QVal stored in a cache, elt_count equals the sum of
\* len over the SAVals that the cache's SAMap holds for the SAKeys in the
\* QVal's QList window, also after addOnTheFly of an SAKey that the SAMap
\* holds and after a copy into a cache whose SAMap holds some of the copied
\* SAKeys.
C20_EltCount ==
    pc = "run" =>
      /\ eltCountsAgree(current_)
      /\ local_ # NULL => eltCountsAgree(local_)
      /\ shared_ # NULL => eltCountsAgree(shared_)

\* ------------------------------------------------------------------------
\* queryCopy while another seed's session is active
\* ------------------------------------------------------------------------
\* A current-read cache with room for a session's ranges and a copied
\* window side by side, over a local cache and no shared cache.
InitInterleave ==
    /\ v0 = 0
    /\ NoKeyTest
    /\ NoNarrow
    /\ current_ = AlignmentCache(CurPages + 2, FALSE)
    /\ local_ = AlignmentCache(LocPages, FALSE)
    /\ shared_ = NULL
    /\ qk_ = QKeyReset
    /\ qv_ = "NULL"
    /\ qvbuf_ = QValReset
    /\ cacheable_ = FALSE
    /\ rangen_ = 0
    /\ eltsn_ = 0
    /\ pc = "run"
    /\ last = NoOp
    /\ fin = EmptyMap
    /\ sess = NoSess

\* Two cacheable seeds, ranges of one element, and no clear() from outside
\* the session.
NextInterleave ==
    \/ \E s \in {<<0, 1, 2, 3>>, <<3>>} : beginAlign(s)
    \/ \E a \in {x \in AddInputs : x.botf - x.topf = 1} : addOnTheFlyLive(a)
    \/ finishAlign
    \/ nextRead
    \/ \E qk \in {QKeyInit(<<0, 1, 2, 3>>), QKeyInit(<<3>>)} : queryCopy(qk)

SpecInterleave == InitInterleave /\ [][NextInterleave]_vars

\* The QList windows of the valid QVals of c with at least one range are
\* pairwise disjoint
windowsApart(c) ==
    \A k1, k2 \in DOMAIN c.qmap :
      (/\ k1 # k2
       /\ valid(c.qmap[k1]) /\ valid(c.qmap[k2])
       /\ c.qmap[k1].rangen > 0 /\ c.qmap[k2].rangen > 0) =>
        \/ c.qmap[k1].i + c.qmap[k1].rangen <= c.qmap[k2].i
        \/ c.qmap[k2].i + c.qmap[k2].rangen <= c.qmap[k1].i

\* C19: for every QVal stored in a cache, QList[i .. i + rangen) is the
\* run of SAKeys of that query key alone, so the windows of different query
\* keys do not overlap; this holds for every interleaving of the session's
\* operations, a queryCopy into the current cache while another seed's
\* session is active included.
C19_Contiguous ==
    pc = "run" =>
      /\ windowsApart(current_)
      /\ local_ # NULL => windowsApart(local_)
      /\ shared_ # NULL => windowsApart(shared_)

\* ------------------------------------------------------------------------
\* queryQval and the runs of the QList
\* ------------------------------------------------------------------------
\* AlignmentCache::queryQval (lines 495-528): the tuples made for the
\* window of qv, one per place of the QList
queryQval(c, qv) ==
    [j \in 1..qv.rangen |->
       SATuple(c.qlist[qv.i + j], c.samap[c.qlist[qv.i + j]].top,
               TSlice(c.samap[c.qlist[qv.i + j]].i,
                      c.samap[c.qlist[qv.i + j]].len))]

\* No place of the window of a valid QVal of c holds the SAKey of the
\* place before it (the assertion of line 509)
noConsecutive(c) ==
    \A qk \in DOMAIN c.qmap :
      valid(c.qmap[qk]) =>
        \A j \in (c.qmap[qk].i + 2)..(c.qmap[qk].i + c.qmap[qk].rangen) :
          j <= Len(c.qlist) => c.qlist[j] # c.qlist[j - 1]

\* No tuple that queryQval makes for a valid QVal of c equals the tuple
\* before it in key, top and offs (the assertion of line 522)
tuplesDiffer(c) ==
    \A qk \in DOMAIN c.qmap :
      (valid(c.qmap[qk]) /\ entryComplete(c, qk)) =>
        \A j \in 2..c.qmap[qk].rangen :
          queryQval(c, c.qmap[qk])[j] # queryQval(c, c.qmap[qk])[j - 1]

\* C21: in every reachable state of a cache, for every stored QVal and
\* every place i of its window after the first, QList[i] differs from
\* QList[i-1], and so the tuples that queryQval makes never hold two
\* consecutive tuples equal in key, top and offs.
C21_NoConsecutive ==
    pc = "run" =>
      /\ noConsecutive(current_) /\ tuplesDiffer(current_)
      /\ local_ # NULL => (noConsecutive(local_) /\ tuplesDiffer(local_))
      /\ shared_ # NULL => (noConsecutive(shared_) /\ tuplesDiffer(shared_))

C23_LiveHandle ==
    (pc = "run" /\ aligning /\ cacheable(qk_)) =>
      (query(current_, qk_) /\ qv_ = "cur")

\* ------------------------------------------------------------------------
\* The counters of the session
\* ------------------------------------------------------------------------
\* Ranges handed to addOnTheFly: those of AddInputs, a range with
\* botf = topf, and a range with botf < topf for a reference substring that
\* AddInputs has too
TallyInputs ==
    AddInputs \cup {[rfseq |-> <<2>>, topf |-> 30, botf |-> 30],
                    [rfseq |-> <<1>>, topf |-> 21, botf |-> 19]}

\* AlignmentCacheIface(current, NULL, NULL)
InitTally == InitAt(0) /\ local_ = NULL /\ shared_ = NULL

\* Sessions on the current cache alone, with every range of TallyInputs
NextTally ==
    \/ \E s \in SeedInputs : beginAlign(s)
    \/ \E a \in TallyInputs : addOnTheFlyLive(a)
    \/ finishAlign
    \/ nextRead

SpecTally == InitTally /\ [][NextTally]_vars

\* AlignmentCacheIface::repOk (lines 1002-1010)
repOk ==
    /\ eltsn_ >= rangen_
    /\ ~aligning => (rangen_ = 0 /\ eltsn_ = 0)

\* The counters after an addOnTheFly of the range a that returned ret
tallied(a, ret) ==
    IF ret = 1
      THEN /\ rangen_' = rangen_ + 1
           /\ eltsn_' = eltsn_ + ((a.botf - a.topf) % U32)
      ELSE /\ rangen_' = rangen_
           /\ eltsn_' = eltsn_

\* C24: in every reachable state the session's count of elements is at
\* least its count of ranges, and both are zero whenever no session is
\* active; each successful addOnTheFly(rfseq, topf, botf) adds exactly 1 to
\* the count of ranges and botf - topf, in unsigned 32-bit arithmetic, to
\* the count of elements, and a failed addOnTheFly changes neither.
C24_Counters ==
    [][/\ repOk'
       /\ Step("addOnTheFly") =>
            \E a \in TallyInputs :
              QKeyInit(a.rfseq) = last'.key /\ tallied(a, last'.ret)]_vars

\* C24 without its first part: the counters are zero whenever no session is
\* active, and each addOnTheFly tallies as stated
C24_Tally ==
    [][/\ ~aligning' => (rangen_' = 0 /\ eltsn_' = 0)
       /\ Step("addOnTheFly") =>
            \E a \in TallyInputs :
              QKeyInit(a.rfseq) = last'.key /\ tallied(a, last'.ret)]_vars

====
